---------------------------- MODULE Spec2Model ----------------------------
(***************************************************************************)
(* A model of CppCommon's read/write lock (source/threads/rw_lock.cpp) and *)
(* of its calendar time conversions (time.cpp).                            *)
(*                                                                         *)
(* The lock is a pass-through to the native primitive (pthread_rwlock_t or *)
(* SRWLOCK).  The native primitive is modelled by its documented           *)
(* behaviour: a reader count and a writer flag.  Each thread is a small    *)
(* state machine whose steps are the native calls and clock reads of the   *)
(* method it is executing.                                                 *)
(***************************************************************************)
EXTENDS Integers, Sequences, FiniteSets, TLC

VARIABLES
    rwlock,     \* Impl::_rwlock: the native lock, [readers, writer]
    pc,         \* per thread: where it is inside the RWLock method it runs
    held,       \* per thread: the hold its completed calls have given it
    op,         \* per thread: the timed method in progress
    last,       \* the call the last step completed: [thread, method, value]
    finish,     \* per thread: the local 'finish' of TryLockReadFor/TryLockWriteFor
    timespan,   \* per thread: the 'timespan' argument of the timed call
    clock,      \* the monotonic nanosecond clock NanoTimestamp() reads
    time32,     \* the build: sizeof(time_t) == 4
    tzone,      \* the local timezone: seconds east of UTC, no daylight saving
    input,      \* the fields a caller passes to Time(year, month, ...)
    stage,      \* how far the caller's conversion has come
    object,     \* the constructed Time: its _year ... _nanosecond
    platform,   \* the platform calendar calls made so far
    stamp,      \* the Timestamp utcstamp() / localstamp() returned
    output,     \* the fields of UtcTime(stamp) / LocalTime(stamp)
    pimpl,      \* per RWLock object: _pimpl, a native handle or 0 (null)
    alive,      \* the RWLock objects constructed and not yet destroyed
    handles,    \* per native handle: the init and destroy calls made on it
    life,       \* the last construction, move or destruction of an RWLock
    native      \* the result of the native call an Impl method is mapping

lockVars == <<rwlock, pc, held, op, last, finish, timespan, clock>>

timeVars == <<time32, tzone, input, stage, object, platform, stamp, output>>

ownerVars == <<pimpl, alive, handles, life>>

implVars == <<native>>

vars == <<rwlock, pc, held, op, last, finish, timespan, clock,
          time32, tzone, input, stage, object, platform, stamp, output,
          pimpl, alive, handles, life, native>>

---------------------------------------------------------------------------
(* Bounds of the model *)

NumThreads == 3

MaxClock == 2

MaxTimed == 1

NumObjects == 3

\* The largest result code a native call is taken to return.
MaxErrno == 133

NumHandles == 2

Threads == 1..NumThreads

\* The RWLock objects of the program and the native locks it can create.
Objects == 1..NumObjects

Handles == 1..NumHandles

\* The RWLock the threads share, and its native lock.
TheLock == 1

TheHandle == 1

\* The timeouts a caller passes: negative, zero and positive.
Timespans == {-2, 0, 1}

---------------------------------------------------------------------------
(* The native primitive *)

\* errno's EBUSY, the one non-zero result the try-lock calls tolerate.
EBUSY == 16

\* A writer is blocked inside pthread_rwlock_wrlock / AcquireSRWLockExclusive.
WritersWaiting == \E u \in Threads : pc[u] = "LockWrite"

\* pthread_rwlock_tryrdlock: fails with EBUSY while a writer holds the lock.
\* While writers are blocked on the lock and no writer holds it, whether a
\* reader gets the lock is unspecified by POSIX (and SRW locks queue new
\* shared requests behind a waiting exclusive one): either result.
NativeTryRdLock(l, waiting) ==
    IF l.writer THEN {EBUSY}
    ELSE IF waiting THEN {0, EBUSY}
    ELSE {0}

\* Mutant: an exclusive try-lock that looks at the writer only.
NativeTryWrLock_IgnoresReaders(l) ==
    IF l.writer THEN {EBUSY} ELSE {0}

\* pthread_rwlock_trywrlock: fails with EBUSY while any thread holds the lock.
NativeTryWrLock(l) ==
    IF l.writer \/ l.readers > 0 THEN {EBUSY} ELSE {0}

\* pthread_rwlock_rdlock returns once no writer holds the lock.
NativeCanRdLock(l) == ~l.writer

\* Mutant: a shared lock that also waits for the readers to leave.
NativeRdLock_ExcludesReaders(l, waiting) ==
    IF l.writer \/ l.readers > 0 THEN {"blocked"}
    ELSE IF waiting THEN {"granted", "blocked"}
    ELSE {"granted"}

\* pthread_rwlock_rdlock on entry: the lock is granted at once or the thread
\* blocks, as for pthread_rwlock_tryrdlock.
NativeRdLock(l, waiting) ==
    IF l.writer THEN {"blocked"}
    ELSE IF waiting THEN {"granted", "blocked"}
    ELSE {"granted"}

\* Mutant: an exclusive lock that waits for the writer only.
NativeCanWrLock_IgnoresReaders(l) == ~l.writer

\* pthread_rwlock_wrlock returns once no thread holds the lock.
NativeCanWrLock(l) == ~l.writer /\ l.readers = 0

\* The native lock after a successful shared / exclusive acquisition.
NativeRdLocked(l) == [l EXCEPT !.readers = @ + 1]

NativeWrLocked(l) == [l EXCEPT !.writer = TRUE]

\* Mutant: an unlock that lets every reader go at once.
NativeUnlocked_ReleasesAll(l) ==
    IF l.writer THEN [l EXCEPT !.writer = FALSE]
    ELSE [l EXCEPT !.readers = 0]

\* pthread_rwlock_unlock: releases the write lock if one is held, otherwise
\* one read lock.
NativeUnlocked(l) ==
    IF l.writer THEN [l EXCEPT !.writer = FALSE]
    ELSE [l EXCEPT !.readers = IF @ > 0 THEN @ - 1 ELSE 0]

---------------------------------------------------------------------------
(* RWLock::Impl: the mapping of native results *)

\* Mutant: the EBUSY test is missing, a busy lock throws.
Impl_TryLockRead_NoBusyTest(result) ==
    IF result # 0 THEN "raised" ELSE "true"

\* Impl::TryLockRead: 0 -> true, EBUSY -> false, anything else throws.
Impl_TryLockRead(result) ==
    IF (result # 0) /\ (result # EBUSY) THEN "raised"
    ELSE IF result = 0 THEN "true" ELSE "false"

\* The results a native try-lock call can come back with: 0, EBUSY and
\* every other error code.
Errnos == 0..MaxErrno

\* The thread that calls an Impl try-lock method.
Caller == 1

\* The results that report a failure of the native call itself.
Failures == Errnos \ {0, EBUSY}

\* Mutant: every non-zero result is taken for 'busy'.
Impl_TryLockWrite_FailureIsBusy(result) ==
    IF result = 0 THEN "true" ELSE "false"

\* Mutant: the result is mapped the wrong way round.
Impl_TryLockWrite_Inverted(result) ==
    IF (result # 0) /\ (result # EBUSY) THEN "raised"
    ELSE IF result = 0 THEN "false" ELSE "true"

\* Impl::TryLockWrite: 0 -> true, EBUSY -> false, anything else throws.
Impl_TryLockWrite(result) ==
    IF (result # 0) /\ (result # EBUSY) THEN "raised"
    ELSE IF result = 0 THEN "true" ELSE "false"

\* Impl::LockRead / Impl::LockWrite: 0 -> returns, anything else throws.
Impl_LockRead(result) == IF result # 0 THEN "raised" ELSE "done"

Impl_LockWrite(result) == IF result # 0 THEN "raised" ELSE "done"

---------------------------------------------------------------------------
(* Timestamp arithmetic and the clock *)

\* Timestamp + Timespan: the deadline, or "overflow" when the sum leaves the
\* range of the unsigned nanosecond count.
TimestampAdd(ts, span) ==
    IF ts + span < 0
    THEN [overflow |-> TRUE, total |-> 0]
    ELSE [overflow |-> FALSE, total |-> ts + span]

\* No call was completed by the last step.
NoCall == [thread |-> 0, method |-> "none", value |-> "none"]

\* Mutant: a clock that wraps around to zero.
Tick_Wraps ==
    /\ clock' = IF clock < MaxClock THEN clock + 1 ELSE 0
    /\ last' = NoCall
    /\ UNCHANGED <<rwlock, pc, held, op, finish, timespan>>
    /\ UNCHANGED <<timeVars, ownerVars, implVars>>

\* The clock advances; it never goes back.
Tick ==
    /\ clock < MaxClock
    /\ clock' = clock + 1
    /\ last' = NoCall
    /\ UNCHANGED <<rwlock, pc, held, op, finish, timespan>>
    /\ UNCHANGED <<timeVars, ownerVars, implVars>>

---------------------------------------------------------------------------
(* The calls of a thread *)

\* A thread may start an acquisition when it is in no call and holds
\* nothing (recursive acquisition is not supported).
CanAcquire(t) == pc[t] = "idle" /\ held[t] = "none" /\ TheLock \in alive

\* The call of 'method' by thread t returns 'value' and leaves t with 'hold';
\* the locals of the call are gone.
Returned(t, method, value, hold) ==
    /\ pc' = [pc EXCEPT ![t] = "idle"]
    /\ op' = [op EXCEPT ![t] = "none"]
    /\ held' = [held EXCEPT ![t] = hold]
    /\ finish' = [finish EXCEPT ![t] = 0]
    /\ timespan' = [timespan EXCEPT ![t] = 0]
    /\ last' = [thread |-> t, method |-> method, value |-> value]

\* RWLock::TryLockRead
TryLockRead(t) ==
    /\ CanAcquire(t)
    /\ \E result \in NativeTryRdLock(rwlock, WritersWaiting) :
         /\ rwlock' = IF result = 0 THEN NativeRdLocked(rwlock) ELSE rwlock
         /\ LET value == Impl_TryLockRead(result) IN
              Returned(t, "TryLockRead", value,
                       IF value = "true" THEN "read" ELSE "none")
    /\ UNCHANGED clock
    /\ UNCHANGED <<timeVars, ownerVars, implVars>>

\* Impl::TryLockRead with the native call returning 'native'.
Impl_TryLockRead_call ==
    /\ last = NoCall
    /\ native \in NativeTryRdLock(rwlock, FALSE) \cup Failures
    /\ rwlock' = IF native = 0 THEN NativeRdLocked(rwlock) ELSE rwlock
    /\ LET value == Impl_TryLockRead(native) IN
         Returned(Caller, "TryLockRead", value,
                  IF value = "true" THEN "read" ELSE "none")
    /\ UNCHANGED clock
    /\ UNCHANGED <<timeVars, ownerVars, implVars>>

\* Impl::TryLockWrite with the native call returning 'native'.
Impl_TryLockWrite_call ==
    /\ last = NoCall
    /\ native \in NativeTryWrLock(rwlock) \cup Failures
    /\ rwlock' = IF native = 0 THEN NativeWrLocked(rwlock) ELSE rwlock
    /\ LET value == Impl_TryLockWrite(native) IN
         Returned(Caller, "TryLockWrite", value,
                  IF value = "true" THEN "write" ELSE "none")
    /\ UNCHANGED clock
    /\ UNCHANGED <<timeVars, ownerVars, implVars>>

\* A thread may try for the exclusive hold when it holds nothing, and also
\* while it holds the lock shared: the native call then reports busy.
CanTryWrite(t) ==
    pc[t] = "idle" /\ held[t] \in {"none", "read"} /\ TheLock \in alive

\* RWLock::TryLockWrite
TryLockWrite(t) ==
    /\ CanTryWrite(t)
    /\ \E result \in NativeTryWrLock(rwlock) :
         /\ rwlock' = IF result = 0 THEN NativeWrLocked(rwlock) ELSE rwlock
         /\ LET value == Impl_TryLockWrite(result) IN
              Returned(t, "TryLockWrite", value,
                       IF value = "true" THEN "write" ELSE held[t])
    /\ UNCHANGED clock
    /\ UNCHANGED <<timeVars, ownerVars, implVars>>

\* RWLock::LockRead: the native call grants the shared hold at once, or the
\* thread blocks inside it.
LockRead(t) ==
    /\ CanAcquire(t)
    /\ \E outcome \in NativeRdLock(rwlock, WritersWaiting) :
         IF outcome = "granted"
         THEN /\ rwlock' = NativeRdLocked(rwlock)
              /\ LET value == Impl_LockRead(0) IN
                   Returned(t, "LockRead", value,
                            IF value = "done" THEN "read" ELSE "none")
         ELSE /\ pc' = [pc EXCEPT ![t] = "LockRead"]
              /\ last' = NoCall
              /\ UNCHANGED <<rwlock, held, op, finish, timespan>>
    /\ UNCHANGED clock
    /\ UNCHANGED <<timeVars, ownerVars, implVars>>

\* RWLock::LockRead, blocked: the native call returns with the shared hold.
LockReadAcquire(t) ==
    /\ pc[t] = "LockRead"
    /\ NativeCanRdLock(rwlock)
    /\ rwlock' = NativeRdLocked(rwlock)
    /\ LET value == Impl_LockRead(0) IN
         Returned(t, "LockRead", value,
                  IF value = "done" THEN "read" ELSE "none")
    /\ UNCHANGED clock
    /\ UNCHANGED <<timeVars, ownerVars, implVars>>

\* RWLock::LockWrite: the native call grants the exclusive hold at once, or
\* the thread blocks inside it.
LockWrite(t) ==
    /\ CanAcquire(t)
    /\ IF NativeCanWrLock(rwlock)
       THEN /\ rwlock' = NativeWrLocked(rwlock)
            /\ LET value == Impl_LockWrite(0) IN
                 Returned(t, "LockWrite", value,
                          IF value = "done" THEN "write" ELSE "none")
       ELSE /\ pc' = [pc EXCEPT ![t] = "LockWrite"]
            /\ last' = NoCall
            /\ UNCHANGED <<rwlock, held, op, finish, timespan>>
    /\ UNCHANGED clock
    /\ UNCHANGED <<timeVars, ownerVars, implVars>>

\* RWLock::LockWrite, blocked: the native call returns with the exclusive
\* hold.
LockWriteAcquire(t) ==
    /\ pc[t] = "LockWrite"
    /\ NativeCanWrLock(rwlock)
    /\ rwlock' = NativeWrLocked(rwlock)
    /\ LET value == Impl_LockWrite(0) IN
         Returned(t, "LockWrite", value,
                  IF value = "done" THEN "write" ELSE "none")
    /\ UNCHANGED clock
    /\ UNCHANGED <<timeVars, ownerVars, implVars>>

\* RWLock::UnlockRead, called by a thread that holds the lock shared.
UnlockRead(t) ==
    /\ pc[t] = "idle"
    /\ held[t] = "read"
    /\ TheLock \in alive
    /\ rwlock' = NativeUnlocked(rwlock)
    /\ Returned(t, "UnlockRead", "none", "none")
    /\ UNCHANGED clock
    /\ UNCHANGED <<timeVars, ownerVars, implVars>>

\* RWLock::UnlockWrite, called by the thread that holds the lock exclusively.
UnlockWrite(t) ==
    /\ pc[t] = "idle"
    /\ held[t] = "write"
    /\ TheLock \in alive
    /\ rwlock' = NativeUnlocked(rwlock)
    /\ Returned(t, "UnlockWrite", "none", "none")
    /\ UNCHANGED clock
    /\ UNCHANGED <<timeVars, ownerVars, implVars>>

---------------------------------------------------------------------------
(* The timed calls *)

TimedMethods == {"TryLockReadFor", "TryLockWriteFor"}

InTimed(t) == pc[t] \in {"first", "check", "try"}

\* The non-blocking attempt a timed method makes, and the hold it gives.
TimedTry(method) ==
    IF method = "TryLockReadFor"
    THEN {<<result, Impl_TryLockRead(result)>> :
              result \in NativeTryRdLock(rwlock, WritersWaiting)}
    ELSE {<<result, Impl_TryLockWrite(result)>> :
              result \in NativeTryWrLock(rwlock)}

TimedLocked(method, l) ==
    IF method = "TryLockReadFor" THEN NativeRdLocked(l) ELSE NativeWrLocked(l)

TimedHold(method) == IF method = "TryLockReadFor" THEN "read" ELSE "write"

\* Timestamp finish = NanoTimestamp() + timespan;
TimedStart(t, method, span) ==
    /\ CanAcquire(t)
    /\ Cardinality({u \in Threads : InTimed(u)}) < MaxTimed
    /\ LET sum == TimestampAdd(clock, span) IN
         IF sum.overflow
         THEN Returned(t, method, "raised", "none")
         ELSE /\ pc' = [pc EXCEPT ![t] = "first"]
              /\ op' = [op EXCEPT ![t] = method]
              /\ last' = NoCall
              /\ finish' = [finish EXCEPT ![t] = sum.total]
              /\ timespan' = [timespan EXCEPT ![t] = span]
              /\ UNCHANGED held
    /\ UNCHANGED <<rwlock, clock>>
    /\ UNCHANGED <<timeVars, ownerVars, implVars>>

\* Mutant: a successful attempt does not return, the call goes on to the
\* clock check with the lock taken.
TimedAttempt_NoReturn(t, at) ==
    /\ pc[t] = at
    /\ \E r \in TimedTry(op[t]) :
         /\ rwlock' = IF r[1] = 0 THEN TimedLocked(op[t], rwlock) ELSE rwlock
         /\ IF r[2] = "raised"
            THEN Returned(t, op[t], "raised", "none")
            ELSE /\ pc' = [pc EXCEPT ![t] = "check"]
                 /\ last' = NoCall
                 /\ UNCHANGED <<op, held, finish, timespan>>
    /\ UNCHANGED clock
    /\ UNCHANGED <<timeVars, ownerVars, implVars>>

\* One attempt of the timed call at position 'at': on success the call
\* returns true, on failure it goes on at 'next'.
TimedAttempt(t, at) ==
    /\ pc[t] = at
    /\ \E r \in TimedTry(op[t]) :
         /\ rwlock' = IF r[1] = 0 THEN TimedLocked(op[t], rwlock) ELSE rwlock
         /\ IF r[2] = "true"
            THEN Returned(t, op[t], "true", TimedHold(op[t]))
            ELSE IF r[2] = "raised"
            THEN Returned(t, op[t], "raised", "none")
            ELSE /\ pc' = [pc EXCEPT ![t] = "check"]
                 /\ last' = NoCall
                 /\ UNCHANGED <<op, held, finish, timespan>>
    /\ UNCHANGED clock
    /\ UNCHANGED <<timeVars, ownerVars, implVars>>

\* Mutant: the attempt before the loop is missing.
TimedFirst_Skipped(t) ==
    /\ pc[t] = "first"
    /\ pc' = [pc EXCEPT ![t] = "check"]
    /\ last' = NoCall
    /\ UNCHANGED <<rwlock, op, held, finish, timespan, clock>>
    /\ UNCHANGED <<timeVars, ownerVars, implVars>>

\* if (TryLockRead()) return true;   -- the attempt before the loop
TimedFirst(t) == TimedAttempt(t, "first")

\* Mutant: the loop gives up one clock reading before the deadline.
TimedCheck_Early(t) ==
    /\ pc[t] = "check"
    /\ IF clock + 1 < finish[t]
       THEN /\ pc' = [pc EXCEPT ![t] = "try"]
            /\ last' = NoCall
            /\ UNCHANGED <<op, held, finish, timespan>>
       ELSE Returned(t, op[t], "false", "none")
    /\ UNCHANGED <<rwlock, clock>>
    /\ UNCHANGED <<timeVars, ownerVars, implVars>>

\* Mutant: the loop never compares the clock with the deadline.
TimedCheck_Forever(t) ==
    /\ pc[t] = "check"
    /\ pc' = [pc EXCEPT ![t] = "try"]
    /\ last' = NoCall
    /\ UNCHANGED <<op, held, finish, timespan>>
    /\ UNCHANGED <<rwlock, clock>>
    /\ UNCHANGED <<timeVars, ownerVars, implVars>>

\* while (NanoTimestamp() < finish) ... return false;
TimedCheck(t) ==
    /\ pc[t] = "check"
    /\ IF clock < finish[t]
       THEN /\ pc' = [pc EXCEPT ![t] = "try"]
            /\ last' = NoCall
            /\ UNCHANGED <<op, held, finish, timespan>>
       ELSE Returned(t, op[t], "false", "none")
    /\ UNCHANGED <<rwlock, clock>>
    /\ UNCHANGED <<timeVars, ownerVars, implVars>>

\* if (TryLockRead()) return true; else Thread::Yield();   -- the loop body
TimedRetry(t) == TimedAttempt(t, "try")

---------------------------------------------------------------------------
(* The lifetime of RWLock objects *)

\* errno's ENOMEM, a result pthread_rwlock_init can fail with.
ENOMEM == 12

\* pthread_rwlock_init: succeeds, or fails for lack of resources.
NativeInit == {0, ENOMEM}

\* pthread_rwlock_destroy: succeeds on an unlocked lock; on a locked lock
\* the behaviour is undefined, an implementation may report EBUSY.
NativeDestroy(l) ==
    IF l.writer \/ l.readers > 0 THEN {0, EBUSY} ELSE {0}

\* Impl::Impl: a non-zero result of pthread_rwlock_init throws.
Impl_ctor(result) == IF result # 0 THEN "raised" ELSE "constructed"

\* Mutant: the test of the destroy result is the wrong way round.
Impl_dtor_Inverted(result) == IF result = 0 THEN "fatality" ELSE "destroyed"

\* Impl::~Impl: a non-zero result of pthread_rwlock_destroy is fatal.
Impl_dtor(result) == IF result # 0 THEN "fatality" ELSE "destroyed"

\* No RWLock has been constructed, moved or destroyed yet.
NoLife ==
    [op |-> "none", object |-> 0, source |-> 0, deleted |-> 0, result |-> 0,
     value |-> "none"]

\* No thread is inside a call of the lock, and the process has not aborted.
Quiescent ==
    /\ \A t \in Threads : pc[t] = "idle"
    /\ life.value # "fatality"

\* The native locks pthread_rwlock_init has not been called on.
FreshHandles == {h \in Handles : handles[h].inits = 0}

\* delete of the Impl that holds handle h: ~Impl calls
\* pthread_rwlock_destroy once, with the given result.
Deleted(h) == [handles EXCEPT ![h].destroys = IF @ < 2 THEN @ + 1 ELSE @]

\* RWLock::RWLock(): _pimpl(std::make_unique<Impl>())
RWLock_ctor(o) ==
    /\ Quiescent
    /\ o \notin alive
    /\ FreshHandles # {}
    /\ LET h == CHOOSE f \in FreshHandles : \A g \in FreshHandles : f <= g IN
       \E result \in NativeInit :
         /\ life' = [op |-> "RWLock", object |-> o, source |-> 0,
                     deleted |-> 0, result |-> result,
                     value |-> Impl_ctor(result)]
         /\ IF Impl_ctor(result) = "constructed"
            THEN /\ handles' = [handles EXCEPT ![h].inits = 1]
                 /\ pimpl' = [pimpl EXCEPT ![o] = h]
                 /\ alive' = alive \cup {o}
            ELSE UNCHANGED <<handles, pimpl, alive>>
    /\ last' = NoCall
    /\ UNCHANGED <<rwlock, pc, held, op, finish, timespan, clock>>
    /\ UNCHANGED <<timeVars, implVars>>

\* RWLock::RWLock(RWLock&& lock): _pimpl(std::move(lock._pimpl))
RWLock_move_ctor(o, lock) ==
    /\ Quiescent
    /\ o \notin alive
    /\ lock \in alive
    /\ pimpl' = [pimpl EXCEPT ![o] = pimpl[lock], ![lock] = 0]
    /\ alive' = alive \cup {o}
    /\ life' = [op |-> "RWLock&&", object |-> o, source |-> lock,
                deleted |-> 0, result |-> 0, value |-> "constructed"]
    /\ last' = NoCall
    /\ UNCHANGED handles
    /\ UNCHANGED <<rwlock, pc, held, op, finish, timespan, clock>>
    /\ UNCHANGED <<timeVars, implVars>>

\* Mutant: a hand-written move assignment that deletes its own Impl first
\* and then takes the source's pointer, with no test for self-assignment.
RWLock_move_assign_DeleteFirst(o, lock) ==
    /\ Quiescent
    /\ o \in alive
    /\ lock \in alive
    /\ LET old == pimpl[o]
       IN /\ pimpl' = [pimpl EXCEPT ![lock] = 0, ![o] = pimpl[lock]]
          /\ IF old # 0
             THEN \E result \in NativeDestroy(rwlock) :
                    /\ handles' = Deleted(old)
                    /\ life' = [op |-> "operator=", object |-> o,
                                source |-> lock, deleted |-> old,
                                result |-> result, value |-> Impl_dtor(result)]
             ELSE /\ UNCHANGED handles
                  /\ life' = [op |-> "operator=", object |-> o,
                              source |-> lock, deleted |-> 0, result |-> 0,
                              value |-> "assigned"]
    /\ last' = NoCall
    /\ UNCHANGED alive
    /\ UNCHANGED <<rwlock, pc, held, op, finish, timespan, clock>>
    /\ UNCHANGED <<timeVars, implVars>>

\* RWLock::operator=(RWLock&& lock): _pimpl = std::move(lock._pimpl), which
\* is _pimpl.reset(lock._pimpl.release()): the source gives its pointer up,
\* the target stores it and deletes the Impl it held before, if any.
RWLock_move_assign(o, lock) ==
    /\ Quiescent
    /\ o \in alive
    /\ lock \in alive
    /\ LET p == pimpl[lock]
           released == [pimpl EXCEPT ![lock] = 0]
           old == released[o]
       IN /\ pimpl' = [released EXCEPT ![o] = p]
          /\ IF old # 0
             THEN \E result \in NativeDestroy(rwlock) :
                    /\ handles' = Deleted(old)
                    /\ life' = [op |-> "operator=", object |-> o,
                                source |-> lock, deleted |-> old,
                                result |-> result, value |-> Impl_dtor(result)]
             ELSE /\ UNCHANGED handles
                  /\ life' = [op |-> "operator=", object |-> o,
                              source |-> lock, deleted |-> 0, result |-> 0,
                              value |-> "assigned"]
    /\ last' = NoCall
    /\ UNCHANGED alive
    /\ UNCHANGED <<rwlock, pc, held, op, finish, timespan, clock>>
    /\ UNCHANGED <<timeVars, implVars>>

\* RWLock::~RWLock(): the unique_ptr deletes the Impl it holds, if any.
RWLock_dtor(o) ==
    /\ Quiescent
    /\ o \in alive
    /\ alive' = alive \ {o}
    /\ pimpl' = [pimpl EXCEPT ![o] = 0]
    /\ IF pimpl[o] # 0
       THEN \E result \in NativeDestroy(rwlock) :
              /\ handles' = Deleted(pimpl[o])
              /\ life' = [op |-> "~RWLock", object |-> o, source |-> 0,
                          deleted |-> pimpl[o], result |-> result,
                          value |-> Impl_dtor(result)]
       ELSE /\ UNCHANGED handles
            /\ life' = [op |-> "~RWLock", object |-> o, source |-> 0,
                        deleted |-> 0, result |-> 0, value |-> "destroyed"]
    /\ last' = NoCall
    /\ UNCHANGED <<rwlock, pc, held, op, finish, timespan, clock>>
    /\ UNCHANGED <<timeVars, implVars>>

---------------------------------------------------------------------------
(* Calendar time: the platform's calendar calls *)

\* Epoch seconds are kept as whole days and the second of the day, and a
\* Timestamp as days, second of the day and nanosecond of the second, so
\* that 64-bit values stay exact: value = (d * 86400 + s) * 10^9 + n.

SecondsPerDay == 86400

NanosPerSecond == 1000000000

\* 2^64 nanoseconds = 213503 days, 84873 seconds and 709551616 nanoseconds.
Wrap64 == [d |-> 213503, s |-> 84873, n |-> 709551616]

\* 2^31 seconds = 24855 days and 11648 seconds (the first value a 32-bit
\* time_t cannot hold); 2^32 seconds = 49710 days and 23296 seconds.
Limit32 == [d |-> 24855, s |-> 11648]

Wrap32 == [d |-> 49710, s |-> 23296]

\* Carry seconds into days.
NormalTime(d, s) ==
    [d |-> d + (s \div SecondsPerDay), s |-> s % SecondsPerDay]

\* Carry nanoseconds into seconds and seconds into days.
NormalStamp(d, s, n) ==
    LET t == NormalTime(d, s + (n \div NanosPerSecond)) IN
    [d |-> t.d, s |-> t.s, n |-> n % NanosPerSecond]

TimeLess(a, b) == a.d < b.d \/ (a.d = b.d /\ a.s < b.s)

StampLess(a, b) ==
    \/ a.d < b.d
    \/ a.d = b.d /\ a.s < b.s
    \/ a.d = b.d /\ a.s = b.s /\ a.n < b.n

\* The day number (days since 1970-01-01) of a civil date of the
\* proleptic Gregorian calendar; a day past the end of the month runs on
\* into the next month, as timegm and mktime normalise it.
DaysFromCivil(year, month, day) ==
    LET y == IF month <= 2 THEN year - 1 ELSE year
        era == y \div 400
        yoe == y - era * 400
        mp == IF month > 2 THEN month - 3 ELSE month + 9
        doy == ((153 * mp + 2) \div 5) + day - 1
        doe == yoe * 365 + (yoe \div 4) - (yoe \div 100) + doy
    IN era * 146097 + doe - 719468

\* The civil date of a day number.
CivilFromDays(days) ==
    LET z == days + 719468
        era == z \div 146097
        doe == z - era * 146097
        yoe == (doe - (doe \div 1460) + (doe \div 36524) - (doe \div 146096)) \div 365
        doy == doe - (365 * yoe + (yoe \div 4) - (yoe \div 100))
        mp == (5 * doy + 2) \div 153
        day == doy - ((153 * mp + 2) \div 5) + 1
        month == IF mp < 10 THEN mp + 3 ELSE mp - 9
    IN [year |-> yoe + era * 400 + (IF month <= 2 THEN 1 ELSE 0),
        month |-> month, day |-> day]

\* The time_t a platform composition call returns: the value itself, or -1
\* when a 32-bit time_t cannot hold it.
MinusOne == [d |-> -1, s |-> SecondsPerDay - 1]

AsTimeT(t) ==
    IF time32 /\ (~TimeLess(t, Limit32)
                  \/ TimeLess(t, NormalTime(-Limit32.d, -Limit32.s)))
    THEN MinusOne
    ELSE t

\* struct tm of a Time: tm_year .. tm_sec (tm_isdst = -1).
TmOf(f) ==
    [tm_year |-> f.year - 1900, tm_mon |-> f.month - 1, tm_mday |-> f.day,
     tm_hour |-> f.hour, tm_min |-> f.minute, tm_sec |-> f.second]

\* timegm(&result) / _mkgmtime(&result): the UTC epoch seconds of a struct tm.
Timegm(tm) ==
    AsTimeT(NormalTime(DaysFromCivil(tm.tm_year + 1900, tm.tm_mon + 1, tm.tm_mday),
                       tm.tm_hour * 3600 + tm.tm_min * 60 + tm.tm_sec))

\* mktime(&result): the epoch seconds of a struct tm read as local time.
Mktime(tm) ==
    AsTimeT(NormalTime(DaysFromCivil(tm.tm_year + 1900, tm.tm_mon + 1, tm.tm_mday),
                       tm.tm_hour * 3600 + tm.tm_min * 60 + tm.tm_sec - tzone))

\* gmtime_r(&time, &result) / gmtime_s: the UTC struct tm of epoch seconds.
Gmtime(t) ==
    LET c == CivilFromDays(t.d) IN
    [tm_year |-> c.year - 1900, tm_mon |-> c.month - 1, tm_mday |-> c.day,
     tm_hour |-> t.s \div 3600, tm_min |-> (t.s % 3600) \div 60,
     tm_sec |-> t.s % 60]

\* localtime_r(&time, &result) / localtime_s: the local struct tm.
Localtime(t) == Gmtime(NormalTime(t.d, t.s + tzone))

---------------------------------------------------------------------------
(* Calendar time: Timestamp *)

\* A 64-bit unsigned nanosecond count: the value modulo 2^64.
Modulo64(v) ==
    IF v.d < 0
    THEN NormalStamp(v.d + Wrap64.d, v.s + Wrap64.s, v.n + Wrap64.n)
    ELSE IF ~StampLess(v, Wrap64)
    THEN NormalStamp(v.d - Wrap64.d, v.s - Wrap64.s, v.n - Wrap64.n)
    ELSE v

\* Timestamp::seconds(): total / 1000000000.
Timestamp_seconds(ts) == [d |-> ts.d, s |-> ts.s]

\* Timestamp::milliseconds() % 1000, microseconds() % 1000, nanoseconds() % 1000.
Timestamp_milliseconds_1000(ts) == (ts.n \div 1000000) % 1000

Timestamp_microseconds_1000(ts) == (ts.n \div 1000) % 1000

Timestamp_nanoseconds_1000(ts) == ts.n % 1000

\* A 32-bit signed value: the seconds modulo 2^32, in -2^31 .. 2^31 - 1.
RECURSIVE Narrow32(_)
Narrow32(t) ==
    IF ~TimeLess(t, Limit32)
    THEN Narrow32(NormalTime(t.d - Wrap32.d, t.s - Wrap32.s))
    ELSE t

\* time_t time = timestamp.seconds();
ToTimeT(t) == IF time32 THEN Narrow32(t) ELSE t

---------------------------------------------------------------------------
(* Calendar time: the Time class *)

FieldNames ==
    <<"year", "month", "day", "hour", "minute", "second",
      "millisecond", "microsecond", "nanosecond">>

NoFields ==
    [year |-> 0, month |-> 0, day |-> 0, hour |-> 0, minute |-> 0,
     second |-> 0, millisecond |-> 0, microsecond |-> 0, nanosecond |-> 0]

NoStamp == [d |-> 0, s |-> 0, n |-> 0]

MinYear == 1970

MaxYear32 == 2038

MaxYear64 == 3000

\* Mutant: the month test is off by one.
Time_Check_Month13(f) ==
    IF (IF time32
        THEN (f.year < MinYear) \/ (f.year > MaxYear32)
        ELSE (f.year < MinYear) \/ (f.year > MaxYear64)) THEN "year"
    ELSE IF (f.month < 1) \/ (f.month > 13) THEN "month"
    ELSE IF (f.day < 1) \/ (f.day > 31) THEN "day"
    ELSE IF (f.hour < 0) \/ (f.hour > 23) THEN "hour"
    ELSE IF (f.minute < 0) \/ (f.minute > 59) THEN "minute"
    ELSE IF (f.second < 0) \/ (f.second > 59) THEN "second"
    ELSE IF (f.millisecond < 0) \/ (f.millisecond > 999) THEN "millisecond"
    ELSE IF (f.microsecond < 0) \/ (f.microsecond > 999) THEN "microsecond"
    ELSE IF (f.nanosecond < 0) \/ (f.nanosecond > 999) THEN "nanosecond"
    ELSE "none"

\* Time::Time(int year, ..., int nanosecond): the field whose range check
\* throws ArgumentException, or "none" when the object is constructed.
Time_Check(f) ==
    IF (IF time32
        THEN (f.year < MinYear) \/ (f.year > MaxYear32)
        ELSE (f.year < MinYear) \/ (f.year > MaxYear64)) THEN "year"
    ELSE IF (f.month < 1) \/ (f.month > 12) THEN "month"
    ELSE IF (f.day < 1) \/ (f.day > 31) THEN "day"
    ELSE IF (f.hour < 0) \/ (f.hour > 23) THEN "hour"
    ELSE IF (f.minute < 0) \/ (f.minute > 59) THEN "minute"
    ELSE IF (f.second < 0) \/ (f.second > 59) THEN "second"
    ELSE IF (f.millisecond < 0) \/ (f.millisecond > 999) THEN "millisecond"
    ELSE IF (f.microsecond < 0) \/ (f.microsecond > 999) THEN "microsecond"
    ELSE IF (f.nanosecond < 0) \/ (f.nanosecond > 999) THEN "nanosecond"
    ELSE "none"

\* time * 1000000000ull + _millisecond * 1000000ull + _microsecond * 1000ull
\* + _nanosecond, in 64-bit unsigned arithmetic.
Time_Total(time, f) ==
    Modulo64(NormalStamp(time.d, time.s,
                         f.millisecond * 1000000 + f.microsecond * 1000
                         + f.nanosecond))

\* Time::utcstamp(): the Timestamp, or the SystemException of time == -1.
Time_utcstamp(f) ==
    LET time == Timegm(TmOf(f)) IN
    IF time = MinusOne
    THEN [raised |-> TRUE, total |-> NoStamp]
    ELSE [raised |-> FALSE, total |-> Time_Total(time, f)]

\* Time::localstamp(): the Timestamp, or the SystemException of time == -1.
Time_localstamp(f) ==
    LET time == Mktime(TmOf(f)) IN
    IF time = MinusOne
    THEN [raised |-> TRUE, total |-> NoStamp]
    ELSE [raised |-> FALSE, total |-> Time_Total(time, f)]

\* Mutant: the microsecond field is taken from the nanosecond accessor.
FieldsOf_NanoForMicro(tm, ts) ==
    [year |-> tm.tm_year + 1900, month |-> tm.tm_mon + 1, day |-> tm.tm_mday,
     hour |-> tm.tm_hour, minute |-> tm.tm_min, second |-> tm.tm_sec % 60,
     millisecond |-> Timestamp_milliseconds_1000(ts),
     microsecond |-> Timestamp_nanoseconds_1000(ts),
     nanosecond |-> Timestamp_nanoseconds_1000(ts)]

\* The fields a decomposing constructor stores from a struct tm and the
\* Timestamp.
FieldsOf(tm, ts) ==
    [year |-> tm.tm_year + 1900, month |-> tm.tm_mon + 1, day |-> tm.tm_mday,
     hour |-> tm.tm_hour, minute |-> tm.tm_min, second |-> tm.tm_sec % 60,
     millisecond |-> Timestamp_milliseconds_1000(ts),
     microsecond |-> Timestamp_microseconds_1000(ts),
     nanosecond |-> Timestamp_nanoseconds_1000(ts)]

\* Time::Time(const Timestamp&)
Time_ctor(ts) == FieldsOf(Gmtime(ToTimeT(Timestamp_seconds(ts))), ts)

\* UtcTime::UtcTime(const Timestamp&)
UtcTime_ctor(ts) == FieldsOf(Gmtime(ToTimeT(Timestamp_seconds(ts))), ts)

\* LocalTime::LocalTime(const Timestamp&)
LocalTime_ctor(ts) == FieldsOf(Localtime(ToTimeT(Timestamp_seconds(ts))), ts)

---------------------------------------------------------------------------
(* Calendar time: a caller that composes and decomposes *)

\* Time time(year, month, day, hour, minute, second, milli, micro, nano);
Construct ==
    /\ stage = "input"
    /\ IF Time_Check(input) = "none"
       THEN /\ stage' = "constructed"
            /\ object' = input
       ELSE /\ stage' = "ArgumentException"
            /\ UNCHANGED object
    /\ UNCHANGED <<time32, tzone, input, platform, stamp, output>>
    /\ UNCHANGED <<lockVars, ownerVars, implVars>>

\* time.utcstamp()
UtcStamp ==
    /\ stage = "constructed"
    /\ platform' = platform + 1
    /\ LET r == Time_utcstamp(object) IN
         IF r.raised
         THEN /\ stage' = "SystemException"
              /\ UNCHANGED stamp
         ELSE /\ stage' = "utcstamp"
              /\ stamp' = r.total
    /\ UNCHANGED <<time32, tzone, input, object, output>>
    /\ UNCHANGED <<lockVars, ownerVars, implVars>>

\* time.localstamp()
LocalStamp ==
    /\ stage = "constructed"
    /\ platform' = platform + 1
    /\ LET r == Time_localstamp(object) IN
         IF r.raised
         THEN /\ stage' = "SystemException"
              /\ UNCHANGED stamp
         ELSE /\ stage' = "localstamp"
              /\ stamp' = r.total
    /\ UNCHANGED <<time32, tzone, input, object, output>>
    /\ UNCHANGED <<lockVars, ownerVars, implVars>>

\* UtcTime back(stamp);
UtcDecompose ==
    /\ stage = "utcstamp"
    /\ platform' = platform + 1
    /\ output' = UtcTime_ctor(stamp)
    /\ stage' = "utctime"
    /\ UNCHANGED <<time32, tzone, input, object, stamp>>
    /\ UNCHANGED <<lockVars, ownerVars, implVars>>

\* LocalTime back(stamp);
LocalDecompose ==
    /\ stage = "localstamp"
    /\ platform' = platform + 1
    /\ output' = LocalTime_ctor(stamp)
    /\ stage' = "localtime"
    /\ UNCHANGED <<time32, tzone, input, object, stamp>>
    /\ UNCHANGED <<lockVars, ownerVars, implVars>>

\* Time time(stamp);
TimeDecompose ==
    /\ stage = "timestamp"
    /\ platform' = platform + 1
    /\ output' = Time_ctor(stamp)
    /\ stage' = "time"
    /\ UNCHANGED <<time32, tzone, input, object, stamp>>
    /\ UNCHANGED <<lockVars, ownerVars, implVars>>

\* The values a caller passes: each range's ends and their neighbours.
Years ==
    {MinYear - 1, MinYear, 2016, MaxYear32, MaxYear32 + 1,
     2554, 2555, MaxYear64, MaxYear64 + 1}

Months == {0, 1, 2, 12, 13}

Days == {0, 1, 29, 31, 32}

Clocks == {<<0, 0, 0>>, <<0, 59, 59>>, <<1, 0, 0>>, <<23, 59, 59>>}

BadClocks == {<<-1, 0, 0>>, <<24, 0, 0>>, <<0, -1, 0>>, <<0, 60, 0>>,
              <<0, 0, -1>>, <<0, 0, 60>>}

Fractions == {<<0, 0, 0>>, <<999, 999, 999>>, <<1, 2, 3>>}

BadFractions == {<<-1, 0, 0>>, <<1000, 0, 0>>, <<0, -1, 0>>, <<0, 1000, 0>>,
                 <<0, 0, -1>>, <<0, 0, 1000>>}

Fields(y, m, d, c, f) ==
    [year |-> y, month |-> m, day |-> d, hour |-> c[1], minute |-> c[2],
     second |-> c[3], millisecond |-> f[1], microsecond |-> f[2],
     nanosecond |-> f[3]]

Inputs ==
    {Fields(y, m, d, c, f) :
        y \in Years, m \in Months, d \in Days, c \in Clocks, f \in Fractions}
    \cup {Fields(2016, 7, 12, c, <<0, 0, 0>>) : c \in BadClocks}
    \cup {Fields(2016, 7, 12, <<0, 0, 0>>, f) : f \in BadFractions}

\* The local timezones: west of, at and east of Greenwich.
Timezones == {-3600, 0, 3600}

TimeIdle ==
    /\ time32 = FALSE
    /\ tzone = 0
    /\ input = NoFields
    /\ stage = "none"
    /\ object = NoFields
    /\ platform = 0
    /\ stamp = NoStamp
    /\ output = NoFields

LockIdle ==
    /\ rwlock = [readers |-> 0, writer |-> FALSE]
    /\ pc = [t \in Threads |-> "idle"]
    /\ held = [t \in Threads |-> "none"]
    /\ op = [t \in Threads |-> "none"]
    /\ last = NoCall
    /\ finish = [t \in Threads |-> 0]
    /\ timespan = [t \in Threads |-> 0]
    /\ clock = 1

\* One RWLock has been constructed: the lock the threads share.
OneLock ==
    /\ pimpl = [o \in Objects |-> IF o = TheLock THEN TheHandle ELSE 0]
    /\ alive = {TheLock}
    /\ handles = [h \in Handles |->
                    [inits |-> IF h = TheHandle THEN 1 ELSE 0, destroys |-> 0]]
    /\ life = NoLife

\* No RWLock has been constructed.
NoLock ==
    /\ pimpl = [o \in Objects |-> 0]
    /\ alive = {}
    /\ handles = [h \in Handles |-> [inits |-> 0, destroys |-> 0]]
    /\ life = NoLife

\* The Timestamps a caller decomposes: the first and the last day of the
\* 64-bit nanosecond count and days between, with sub-second parts at the
\* ends of each of the three digit groups.
StampDays == {0, 1, 16994, 24855, Wrap64.d}

StampSeconds == {0, 1, 84872, SecondsPerDay - 1}

StampNanos ==
    {0, 1, 999, 1000, 999999, 1000000, 123456789, 709551615,
     NanosPerSecond - 1}

Stamps ==
    {v \in [d : StampDays, s : StampSeconds, n : StampNanos] :
        StampLess(v, Wrap64)}

\* A caller about to decompose a Timestamp it was given.
DecomposeInit ==
    /\ LockIdle
    /\ OneLock
    /\ native = 0
    /\ time32 \in BOOLEAN
    /\ tzone \in Timezones
    /\ input = NoFields
    /\ stage \in {"timestamp", "utcstamp", "localstamp"}
    /\ object = NoFields
    /\ platform = 0
    /\ stamp \in Stamps
    /\ output = NoFields

DecomposeNext ==
    \/ TimeDecompose
    \/ UtcDecompose
    \/ LocalDecompose

DecomposeSpec == DecomposeInit /\ [][DecomposeNext]_vars

TimeInit ==
    /\ LockIdle
    /\ OneLock
    /\ native = 0
    /\ time32 \in BOOLEAN
    /\ tzone \in Timezones
    /\ input \in Inputs
    /\ stage = "input"
    /\ object = NoFields
    /\ platform = 0
    /\ stamp = NoStamp
    /\ output = NoFields

TimeNext ==
    \/ Construct
    \/ UtcStamp
    \/ LocalStamp
    \/ UtcDecompose
    \/ LocalDecompose

TimeSpec == TimeInit /\ [][TimeNext]_vars

---------------------------------------------------------------------------
(* The specification of the lock *)

Init == LockIdle /\ TimeIdle /\ OneLock /\ native = 0

Next ==
    \/ Tick
    \/ \E t \in Threads : TryLockRead(t)
    \/ \E t \in Threads : TryLockWrite(t)
    \/ \E t \in Threads : LockRead(t)
    \/ \E t \in Threads : LockReadAcquire(t)
    \/ \E t \in Threads : LockWrite(t)
    \/ \E t \in Threads : LockWriteAcquire(t)
    \/ \E t \in Threads : UnlockRead(t)
    \/ \E t \in Threads : UnlockWrite(t)
    \/ \E t \in Threads, m \in TimedMethods, s \in Timespans : TimedStart(t, m, s)
    \/ \E t \in Threads : TimedFirst(t)
    \/ \E t \in Threads : TimedCheck(t)
    \/ \E t \in Threads : TimedRetry(t)
    \/ RWLock_dtor(TheLock)

Spec == Init /\ [][Next]_vars

\* The try-lock methods of Impl over every result of the native call, on a
\* lock that the last thread holds not at all, shared or exclusively.
ImplInit ==
    /\ \E mode \in {"none", "read", "write"} :
         /\ rwlock = [readers |-> IF mode = "read" THEN 1 ELSE 0,
                      writer |-> mode = "write"]
         /\ held = [t \in Threads |-> IF t = NumThreads THEN mode ELSE "none"]
    /\ pc = [t \in Threads |-> "idle"]
    /\ op = [t \in Threads |-> "none"]
    /\ last = NoCall
    /\ finish = [t \in Threads |-> 0]
    /\ timespan = [t \in Threads |-> 0]
    /\ clock = 1
    /\ TimeIdle
    /\ OneLock
    /\ native \in Errnos

ImplNext ==
    \/ Impl_TryLockRead_call
    \/ Impl_TryLockWrite_call

ImplSpec == ImplInit /\ [][ImplNext]_vars

\* A program that constructs, moves and destroys RWLock objects.
OwnerInit == LockIdle /\ TimeIdle /\ NoLock /\ native = 0

OwnerNext ==
    \/ \E o \in Objects : RWLock_ctor(o)
    \/ \E o, lock \in Objects : RWLock_move_ctor(o, lock)
    \/ \E o, lock \in Objects : RWLock_move_assign(o, lock)
    \/ \E o \in Objects : RWLock_dtor(o)

OwnerSpec == OwnerInit /\ [][OwnerNext]_vars

\* The same steps under the scheduling the claims about waiting assume: the
\* clock advances, a thread inside a timed call keeps running, a native
\* blocking call returns when the lock can be granted to it.  A shared
\* request is only sure to be granted while no writer is blocked on the lock.
FairSpec ==
    /\ Spec
    /\ WF_vars(Tick)
    /\ \A t \in Threads : WF_vars(TimedFirst(t))
    /\ \A t \in Threads : WF_vars(TimedCheck(t))
    /\ \A t \in Threads : WF_vars(TimedRetry(t))
    /\ \A t \in Threads : WF_vars(LockWriteAcquire(t))
    /\ \A t \in Threads : WF_vars(~WritersWaiting /\ LockReadAcquire(t))

---------------------------------------------------------------------------
(* Claims *)

\* The step completed a call of 'method' by thread t.
Completed(t, method) == last'.thread = t /\ last'.method = method

Holders(mode) == {t \in Threads : held[t] = mode}

\* C1: mutual exclusion.  In every reachable state a thread that holds the
\* lock exclusively is the only holder: no other thread holds it, shared or
\* exclusive, and the native lock agrees with the holds the calls returned.
C1_MutualExclusion ==
    /\ \A t \in Threads : held[t] = "write" =>
           \A u \in Threads \ {t} : held[u] = "none"
    /\ rwlock.writer <=> (Holders("write") # {})
    /\ rwlock.readers = Cardinality(Holders("read"))

\* C1 witness: one thread holds the lock exclusively while a second is
\* blocked in LockRead and a third is inside a timed call.
C1_Witness ==
    \E t, u, v \in Threads :
        /\ held[t] = "write"
        /\ pc[u] = "LockRead"
        /\ InTimed(v)

\* C2 as claimed: TryLockRead returns false (state unchanged) whenever a
\* writer holds the lock and returns true (one more shared holder) whenever
\* the lock is Unlocked or SharedHeld(n).
C2_AsClaimed ==
    [][\A t \in Threads : Completed(t, "TryLockRead") =>
          IF rwlock.writer
          THEN last'.value = "false" /\ rwlock' = rwlock /\ held'[t] = "none"
          ELSE /\ last'.value = "true"
               /\ rwlock' = [rwlock EXCEPT !.readers = @ + 1]
               /\ held'[t] = "read"]_vars

\* C2: TryLockRead never blocks and returns true if and only if it acquired a
\* shared hold.  It returns false, leaving the lock unchanged, whenever a
\* writer holds the lock; it returns true, with one more shared holder,
\* whenever the lock is Unlocked or SharedHeld(n) and no writer is blocked
\* waiting for it; with a writer waiting on a lock that no writer holds it
\* returns either.
C2_TryLockRead ==
    /\ [](\A t \in Threads : CanAcquire(t) => ENABLED TryLockRead(t))
    /\ [][\A t \in Threads : Completed(t, "TryLockRead") =>
            /\ last'.value \in {"true", "false"}
            /\ rwlock.writer => last'.value = "false"
            /\ (~rwlock.writer /\ ~WritersWaiting) => last'.value = "true"
            /\ IF last'.value = "true"
               THEN /\ rwlock' = [rwlock EXCEPT !.readers = @ + 1]
                    /\ held'[t] = "read"
               ELSE /\ rwlock' = rwlock
                    /\ held'[t] = "none"]_vars

\* C2 witness: a TryLockRead has just returned true on a lock that another
\* thread already holds shared.
C2_Witness ==
    /\ last.method = "TryLockRead"
    /\ last.value = "true"
    /\ rwlock.readers = 2
    /\ held[last.thread] = "read"

\* C3: TryLockWrite never blocks and returns true if and only if the lock is
\* Unlocked at the attempt, and then the caller is the single exclusive
\* holder; it returns false, leaving the lock unchanged, whenever the lock is
\* held in any mode.
C3_TryLockWrite ==
    /\ [](\A t \in Threads : CanTryWrite(t) => ENABLED TryLockWrite(t))
    /\ [][\A t \in Threads : Completed(t, "TryLockWrite") =>
            IF ~rwlock.writer /\ rwlock.readers = 0
            THEN /\ last'.value = "true"
                 /\ rwlock' = [rwlock EXCEPT !.writer = TRUE]
                 /\ held'[t] = "write"
                 /\ Holders("write")' = {t}
            ELSE /\ last'.value = "false"
                 /\ rwlock' = rwlock
                 /\ held'[t] = held[t]]_vars

\* C3 witness: a TryLockWrite has just returned false against two readers.
C3_Witness ==
    /\ last.method = "TryLockWrite"
    /\ last.value = "false"
    /\ rwlock.readers = 2
    /\ ~rwlock.writer

\* C4: concurrent readers.  While no writer holds the lock or is blocked on
\* it, every call of LockRead acquires in the step that makes it, whatever
\* the number of readers that hold the lock, and no thread is left blocked
\* inside LockRead without the grant being possible.
NoWriterInvolved == ~rwlock.writer /\ ~WritersWaiting

C4_ConcurrentReaders ==
    /\ [](\A t \in Threads :
            (pc[t] = "LockRead" /\ NoWriterInvolved)
                => ENABLED LockReadAcquire(t))
    /\ [][\A t \in Threads :
            (NoWriterInvolved /\ CanAcquire(t)
             /\ (pc'[t] = "LockRead" \/ Completed(t, "LockRead")))
                => /\ Completed(t, "LockRead")
                   /\ held'[t] = "read"
                   /\ rwlock'.readers = rwlock.readers + 1]_vars

\* C4 witness: all N threads hold the lock shared at the same time.
C4_Witness ==
    /\ \A t \in Threads : held[t] = "read"
    /\ rwlock.readers = NumThreads
    /\ last.method = "LockRead"

\* The step completed a timed call of thread t.
TimedCompleted(t) == last'.thread = t /\ last'.method \in TimedMethods

\* C5: timeout honesty.  The deadline of a timed call is the clock at its
\* start plus the timeout and does not move during the call; the call returns
\* false only at a clock reading at or past the deadline; and while another
\* thread holds the lock exclusively it returns nothing but false.
C5_TimeoutHonesty ==
    [][\A t \in Threads :
        /\ (CanAcquire(t) /\ pc'[t] = "first")
               => finish'[t] = clock + timespan'[t]
        /\ (InTimed(t) /\ InTimed(t)')
               => finish'[t] = finish[t] /\ timespan'[t] = timespan[t]
        /\ (TimedCompleted(t) /\ last'.value = "false")
               => pc[t] = "check" /\ clock >= finish[t]
        /\ (InTimed(t) /\ rwlock.writer /\ TimedCompleted(t))
               => last'.value = "false"]_vars

\* C5 witness: a TryLockWriteFor with a positive timeout, against a lock
\* another thread holds exclusively, has reached its deadline and is about
\* to return false.
C5_Witness ==
    \E t \in Threads :
        /\ pc[t] = "check"
        /\ op[t] = "TryLockWriteFor"
        /\ timespan[t] > 0
        /\ clock >= finish[t]
        /\ rwlock.writer

\* C6: bounded wait.  A timed call whose deadline the clock reaches
\* eventually returns, whether or not the lock is ever released; and once it
\* has read a clock value at or past the deadline it returns false without
\* another acquisition attempt.
C6_BoundedWait ==
    /\ \A t \in Threads :
           (InTimed(t) /\ finish[t] <= MaxClock) ~> ~InTimed(t)
    /\ [][\A t \in Threads :
            (pc[t] = "check" /\ clock >= finish[t] /\ pc'[t] # "check")
                => /\ TimedCompleted(t)
                   /\ last'.value = "false"
                   /\ rwlock' = rwlock
                   /\ held'[t] = "none"]_vars

\* C6 witness: a TryLockReadFor has returned false while the exclusive holder
\* still holds the lock.
C6_Witness ==
    /\ last.method = "TryLockReadFor"
    /\ last.value = "false"
    /\ rwlock.writer
    /\ held[last.thread] = "none"

\* Another thread than t acquired the lock in the last step.
OtherAcquired(t) ==
    /\ last.thread \notin {0, t}
    /\ last.value \in {"true", "done"}

\* A blocking call completes only with the hold: LockWrite in a state where
\* no other thread holds the lock, LockRead in a state with no exclusive
\* holder.
BlockingSafety ==
    [][\A t \in Threads :
        /\ Completed(t, "LockWrite")
               => /\ \A u \in Threads \ {t} : held[u] = "none"
                  /\ ~rwlock.writer /\ rwlock.readers = 0
                  /\ last'.value = "done"
                  /\ held'[t] = "write"
                  /\ rwlock' = [rwlock EXCEPT !.writer = TRUE]
        /\ Completed(t, "LockRead")
               => /\ Holders("write") = {}
                  /\ ~rwlock.writer
                  /\ last'.value = "done"
                  /\ held'[t] = "read"
                  /\ rwlock' = [rwlock EXCEPT !.readers = @ + 1]
        /\ (pc[t] \in {"LockRead", "LockWrite"} /\ pc'[t] # pc[t])
               => held'[t] # "none"]_vars

\* A blocked LockWrite completes once no thread holds the lock, unless
\* another thread acquires first.
BlockedWriterCompletes ==
    \A t \in Threads :
        (pc[t] = "LockWrite" /\ ~rwlock.writer /\ rwlock.readers = 0)
            ~> (held[t] = "write" \/ OtherAcquired(t))

\* C7 as claimed: ... and a blocked caller eventually completes if every
\* conflicting holder releases and no other thread acquires in between: a
\* blocked LockRead completes once no thread holds the lock exclusively.
C7_AsClaimed ==
    /\ BlockingSafety
    /\ BlockedWriterCompletes
    /\ \A t \in Threads :
           (pc[t] = "LockRead" /\ ~rwlock.writer)
               ~> (held[t] = "read" \/ OtherAcquired(t))

\* C7: blocking acquisition.  LockWrite completes only in a state where no
\* other thread holds the lock and makes the caller the exclusive holder;
\* LockRead completes only in a state with no exclusive holder and makes the
\* caller a shared holder; neither completes without the hold.  A blocked
\* LockWrite completes once the lock is free, and a blocked LockRead once no
\* writer holds the lock or is blocked waiting for it, unless another thread
\* acquires (or, for LockRead, a writer starts to wait) in between.
C7_BlockingAcquisition ==
    /\ BlockingSafety
    /\ BlockedWriterCompletes
    /\ \A t \in Threads :
           (pc[t] = "LockRead" /\ ~rwlock.writer /\ ~WritersWaiting)
               ~> (held[t] = "read" \/ OtherAcquired(t) \/ WritersWaiting)

\* C7 witness: a LockWrite that was blocked behind a reader has completed
\* while another thread is still blocked in LockRead.
C7_Witness ==
    /\ last.method = "LockWrite"
    /\ last.value = "done"
    /\ held[last.thread] = "write"
    /\ \E u \in Threads : pc[u] = "LockRead"

\* Every field of f lies in its documented range.
InRange(f) ==
    /\ f.year \in MinYear .. (IF time32 THEN MaxYear32 ELSE MaxYear64)
    /\ f.month \in 1 .. 12
    /\ f.day \in 1 .. 31
    /\ f.hour \in 0 .. 23
    /\ f.minute \in 0 .. 59
    /\ f.second \in 0 .. 59
    /\ f.millisecond \in 0 .. 999
    /\ f.microsecond \in 0 .. 999
    /\ f.nanosecond \in 0 .. 999

\* C8: range validation.  Constructing a Time from explicit fields fails with
\* an argument error exactly when some field is out of range, and then no
\* platform conversion has been called and no object exists; when every field
\* is in range the construction succeeds and the object holds the fields.
C8_RangeValidation ==
    stage # "input" =>
        /\ stage = "ArgumentException" <=> ~InRange(input)
        /\ stage = "ArgumentException" => platform = 0 /\ object = NoFields
        /\ InRange(input) => object = input

\* C8 witness: month = 13, every other field in range, has been rejected.
C8_Witness ==
    /\ stage = "ArgumentException"
    /\ input.month = 13
    /\ InRange([input EXCEPT !.month = 12])

\* C9 as claimed: UtcTime(time.utcstamp()) has the fields of time, for every
\* time whose fields passed validation.
C9_UtcRoundTrip == stage = "utctime" => output = input

\* C10 as claimed: localstamp() of a validated time succeeds and
\* LocalTime(time.localstamp()) has the fields of time, in every timezone.
C10_LocalRoundTrip ==
    /\ [][LocalStamp => stage' = "localstamp"]_vars
    /\ [](stage = "localtime" => output = input)

\* The epoch computation of f over the integers, not reduced.
ExactTotal(time, f) ==
    NormalStamp(time.d, time.s,
                f.millisecond * 1000000 + f.microsecond * 1000 + f.nanosecond)

\* The unsigned 64-bit nanosecond count can hold v.
Fits64(v) == v.d >= 0 /\ StampLess(v, Wrap64)

\* C11 as claimed: a composition that returns a Timestamp returns the exact
\* value of seconds * 1000000000 + millisecond * 1000000 + microsecond * 1000
\* + nanosecond, which fits 64 bits; a computation that does not fit fails
\* instead of returning the value reduced modulo 2^64.
C11_OverflowDetection ==
    /\ stage = "utcstamp" =>
           LET exact == ExactTotal(Timegm(TmOf(object)), object) IN
           Fits64(exact) /\ stamp = exact
    /\ stage = "localstamp" =>
           LET exact == ExactTotal(Mktime(TmOf(object)), object) IN
           Fits64(exact) /\ stamp = exact

\* The RWLock objects that own native handle h.
Owners(h) == {o \in alive : pimpl[o] = h}

\* C12: single ownership of the native handle.  Over every sequence of
\* constructions, move constructions, move assignments (self-assignment
\* included) and destructions, a native handle has at most one owner, is
\* never destroyed more often than it was created, and is owned by a live
\* RWLock exactly as long as it is created and not destroyed: it is neither
\* leaked nor left dangling.
C12_SingleOwnership ==
    \A h \in Handles :
        /\ Cardinality(Owners(h)) <= 1
        /\ handles[h].inits <= 1
        /\ handles[h].destroys <= handles[h].inits
        /\ Owners(h) # {} <=> (handles[h].inits = 1 /\ handles[h].destroys = 0)

\* C12 witness: a move assignment onto a target that owned a handle has
\* destroyed that handle once and left the target as the owner of the
\* source's handle.
C12_Witness ==
    /\ life.op = "operator="
    /\ life.object # life.source
    /\ life.deleted # 0
    /\ handles[life.deleted].destroys = 1
    /\ pimpl[life.object] \notin {0, life.deleted}
    /\ pimpl[life.source] = 0

\* C13: resource cleanup.  Destroying the lock object while its lock is
\* Unlocked destroys the native lock once and signals no fatal condition;
\* a fatal condition is signalled only for a native destroy call that
\* reported a failure.
C13_ResourceCleanup ==
    /\ [][(TheLock \in alive /\ TheLock \notin alive'
           /\ ~rwlock.writer /\ rwlock.readers = 0)
              => /\ life'.value = "destroyed"
                 /\ life'.deleted = TheHandle
                 /\ handles'[TheHandle].destroys = 1]_vars
    /\ [](life.value = "fatality" => life.result # 0)

\* C13 witness: the lock object has been destroyed without a fatal
\* condition, its lock Unlocked and no thread holding it, after the clock
\* has run to its end.
C13_Witness ==
    /\ life.op = "~RWLock"
    /\ life.value = "destroyed"
    /\ handles[TheHandle].destroys = 1
    /\ ~rwlock.writer /\ rwlock.readers = 0
    /\ \A t \in Threads : held[t] = "none"
    /\ clock = MaxClock

C15_LockStateMachine ==
    /\ (~rwlock.writer /\ rwlock.readers = 0)
    /\ [][/\ (rwlock'.writer /\ ~rwlock.writer)
              => rwlock.readers = 0 /\ rwlock'.readers = 0
          /\ rwlock.readers > 0 => ~rwlock'.writer
          /\ \A t \in Threads :
               (Completed(t, "TryLockWrite") /\ rwlock.readers > 0)
                   => last'.value = "false" /\ rwlock' = rwlock
          /\ rwlock'.readers < rwlock.readers
              => /\ rwlock'.readers = rwlock.readers - 1
                 /\ last'.method = "UnlockRead"
          /\ last'.method = "UnlockRead"
              => rwlock' = [rwlock EXCEPT !.readers = @ - 1]
          /\ (rwlock.writer /\ ~rwlock'.writer)
              => last'.method = "UnlockWrite"
          /\ last'.method = "UnlockWrite"
              => /\ rwlock.writer
                 /\ rwlock' = [writer |-> FALSE, readers |-> 0]]_vars

\* C15 witness: a thread that holds the lock shared, with another reader,
\* has tried for the exclusive hold and was refused.
C15_Witness ==
    /\ last.method = "TryLockWrite"
    /\ last.value = "false"
    /\ held[last.thread] = "read"
    /\ rwlock = [writer |-> FALSE, readers |-> 2]

\* C16: try-lock error mapping.  Impl::TryLockRead and Impl::TryLockWrite
\* return true for the native result 0, return false for EBUSY and raise
\* for every other result; so a returned false always stands for EBUSY, the
\* result of a lock that is held.
C16_TryLockErrorMapping ==
    last.method \in {"TryLockRead", "TryLockWrite"} =>
        /\ native = 0 => last.value = "true"
        /\ native = EBUSY => last.value = "false"
        /\ native \notin {0, EBUSY} => last.value = "raised"
        /\ last.value = "false"
               => native = EBUSY /\ (rwlock.writer \/ rwlock.readers > 0)
        /\ last.value = "true" <=> held[last.thread] # "none"

\* C16 witness: TryLockWrite has raised for a native result that is neither
\* 0 nor EBUSY.
C16_Witness ==
    /\ last.method = "TryLockWrite"
    /\ last.value = "raised"
    /\ native \notin {0, EBUSY}
    /\ held[last.thread] = "none"

\* The lock can be granted to an attempt of the timed method in progress.
Available(method) ==
    IF method = "TryLockReadFor"
    THEN ~rwlock.writer /\ ~WritersWaiting
    ELSE ~rwlock.writer /\ rwlock.readers = 0

\* The first thing a timed call does after computing its deadline is one
\* attempt, which returns true when the lock is available; with a zero or
\* negative timeout a failed attempt is followed by the return of false,
\* with no retry.
FirstAttempt ==
    [][\A t \in Threads :
        /\ (pc[t] = "first" /\ pc'[t] # "first")
               => \/ /\ TimedCompleted(t)
                     /\ last'.value = "true"
                     /\ held'[t] = TimedHold(op[t])
                     /\ rwlock' = TimedLocked(op[t], rwlock)
                  \/ /\ pc'[t] = "check"
                     /\ ~Available(op[t])
                     /\ rwlock' = rwlock
        /\ (pc[t] = "first" /\ pc'[t] # "first" /\ Available(op[t]))
               => TimedCompleted(t) /\ last'.value = "true"
        /\ (pc[t] = "check" /\ timespan[t] <= 0 /\ pc'[t] # "check")
               => /\ TimedCompleted(t)
                  /\ last'.value = "false"
                  /\ rwlock' = rwlock]_vars

C18_SubSecondDecomposition ==
    stage \in {"time", "utctime", "localtime"} =>
        /\ output.millisecond \in 0 .. 999
        /\ output.microsecond \in 0 .. 999
        /\ output.nanosecond \in 0 .. 999
        /\ output.millisecond * 1000000 + output.microsecond * 1000
           + output.nanosecond = stamp.n

\* C18 witness: a Timestamp with three different digit groups has been
\* decomposed as local time east of Greenwich.
C18_Witness ==
    /\ stage = "localtime"
    /\ tzone > 0
    /\ stamp.n = 123456789
    /\ output.millisecond = 123
    /\ output.microsecond = 456
    /\ output.nanosecond = 789

\* C19: net effect of a timed acquisition.  Inside a timed call the caller
\* holds nothing and no step of the call that leaves it in the call changes
\* the lock: the one native success of a call is the step that returns true.
\* A call that returns true has added exactly one hold of the requested mode
\* for the caller; a call that returns false leaves the caller without a
\* hold and the lock as the other threads left it.
C19_TimedNetEffect ==
    /\ [](\A t \in Threads : InTimed(t) => held[t] = "none")
    /\ [][\A t \in Threads :
            /\ (InTimed(t) /\ InTimed(t)' /\ pc'[t] # pc[t])
                   => rwlock' = rwlock
            /\ (TimedCompleted(t) /\ last'.value = "true")
                   => /\ pc[t] \in {"first", "try"}
                      /\ rwlock' = TimedLocked(op[t], rwlock)
                      /\ held' = [held EXCEPT ![t] = TimedHold(op[t])]
            /\ (TimedCompleted(t) /\ last'.value = "false")
                   => /\ rwlock' = rwlock
                      /\ held' = held
                      /\ held'[t] = "none"]_vars

\* C19 witness: a TryLockReadFor has returned true after the clock moved on,
\* and the caller is the second shared holder.
C19_Witness ==
    /\ last.method = "TryLockReadFor"
    /\ last.value = "true"
    /\ held[last.thread] = "read"
    /\ rwlock = [writer |-> FALSE, readers |-> 2]
    /\ clock = MaxClock

\* C20 as claimed: utcstamp() of a validated Time computes non-negative
\* epoch seconds and returns a Timestamp: it never raises.
C20_UtcComposeTotal ==
    [][UtcStamp =>
        /\ stage' = "utcstamp"
        /\ Timegm(TmOf(object)).d >= 0]_vars

=============================================================================
